---- MODULE Spec2Model ----
(***************************************************************************)
(* The Markov-chain engine of NHL_Win_Probability (src/NHLMarkovModel.py): *)
(* the state space, transition accumulation, normalization, n-step         *)
(* propagation through the on-disk power cache, and pickle persistence.    *)
(*                                                                         *)
(* Arithmetic is exact: a number is a reduced fraction <<num, den>>.       *)
(* An array (the transition matrix, a power matrix, a probability vector)  *)
(* is held by its non-zero entries: a function from the positions whose    *)
(* value differs from 0 to that value. Every other position of the         *)
(* n_states x n_states array is 0.                                         *)
(***************************************************************************)
EXTENDS Integers, Sequences, FiniteSets, TLC

VARIABLES
    states,         \* self.states: the dict (score, situation, location) -> index
    n_states,       \* self.n_states
    transitions,    \* self.transitions, by its non-zero entries
    is_normalized,  \* self.is_normalized
    file,           \* the pickle file written by save
    cache,          \* matrices/<n>.npy: horizon -> stored matrix
    result,         \* what the last call returned
    lastCall,       \* the last call: operation, arguments, raised error
    observed,       \* history: resolved pairs accumulated into this model since it was created
    preSums,        \* history: the positive row sums normalize() last divided by
    dirty,          \* history: an accumulation happened since the last normalize
    calls,          \* history: number of calls made so far
    twin,           \* a second model object, given the same games in the other order
    api,            \* a get_game_id call: what the API listed, the arguments, the outcome
    timeline,       \* a create_score_timeline call: the plays and the three arrays returned
    race            \* two processes that loaded the saved model, inside propagate

modelVars == <<states, n_states, transitions, is_normalized, file, cache, result,
               lastCall, observed, preSums, dirty, calls>>

vars == <<modelVars, twin, api, timeline, race>>

----------------------------------------------------------------------------
(* Bounds of the model *)

MaxCalls == 4
MaxSteps == 2

----------------------------------------------------------------------------
(* Exact arithmetic on non-negative fractions *)

RECURSIVE GCD(_, _)
GCD(a, b) == IF b = 0 THEN a ELSE GCD(b, a % b)

Rat(n, d) == LET g == GCD(n, d) IN <<n \div g, d \div g>>

Zero == <<0, 1>>
One == <<1, 1>>

RAdd(x, y) == Rat(x[1] * y[2] + y[1] * x[2], x[2] * y[2])
RMul(x, y) == Rat(x[1] * y[1], x[2] * y[2])
RDiv(x, y) == Rat(x[1] * y[2], x[2] * y[1])
RPos(x) == x[1] > 0

RECURSIVE SumOver(_, _)
SumOver(S, F) ==
    IF S = {} THEN Zero
    ELSE LET x == CHOOSE x \in S : TRUE
         IN RAdd(F[x], SumOver(S \ {x}, F))

----------------------------------------------------------------------------
(* Arrays by their non-zero entries *)

Zeros == [p \in {} |-> Zero]

At(M, i, j) == IF <<i, j>> \in DOMAIN M THEN M[<<i, j>>] ELSE Zero

Rows(M) == {p[1] : p \in DOMAIN M}
Cols(M) == {p[2] : p \in DOMAIN M}

\* row_sums[i] of transitions.sum(axis=1)
RowSum(M, i) == SumOver({p \in DOMAIN M : p[1] = i}, M)

\* a @ b for two matrices
MatMul(A, B) ==
    LET entry(i, j) ==
            LET ks == {k \in Cols(A) : <<i, k>> \in DOMAIN A /\ <<k, j>> \in DOMAIN B}
            IN SumOver(ks, [k \in ks |-> RMul(A[<<i, k>>], B[<<k, j>>])])
        nz == {p \in Rows(A) \X Cols(B) : entry(p[1], p[2]) # Zero}
    IN [p \in nz |-> entry(p[1], p[2])]

\* v @ m for a vector and a matrix
VecMat(v, M) ==
    LET entry(j) ==
            LET ks == {k \in DOMAIN v : <<k, j>> \in DOMAIN M}
            IN SumOver(ks, [k \in ks |-> RMul(v[k], M[<<k, j>>])])
        nz == {j \in Cols(M) : entry(j) # Zero}
    IN [j \in nz |-> entry(j)]

\* np.eye(n)
Eye(n) == [p \in {<<i, i>> : i \in 0 .. n - 1} |-> One]

\* np.linalg.matrix_power(a, n) for n >= 0
RECURSIVE matrix_power(_, _, _)
matrix_power(a, n, size) ==
    IF n = 0 THEN Eye(size)
    ELSE IF n = 1 THEN a
    ELSE MatMul(matrix_power(a, n - 1, size), a)

----------------------------------------------------------------------------
(* The state space built by __init__ *)

\* dict.get answers None for a key the dict does not hold; indices are >= 0
None == -1

score_range == [k \in 1 .. 13 |-> k - 7]
\* a slip: 1551 is listed twice and 1550 is missing
situations_duplicate == <<641, 1460, 651, 1560, 1541, 1451, 1551, 1551, 551, 1531,
                          1351, 541, 1450, 531, 1350, 1441, 1431, 1341, 1331>>

situations == <<641, 1460, 651, 1560, 1541, 1451, 1551, 1550, 551, 1531,
                1351, 541, 1450, 531, 1350, 1441, 1431, 1341, 1331>>
locations == <<"O", "N", "D">>

\* The keys in the order the three nested loops reach them.
\* for loc in self.locations
LocLoop(score, sit, locs) == [k \in 1 .. Len(locs) |-> <<score, sit, locs[k]>>]

\* for sit in self.situations
RECURSIVE SitLoop(_, _, _, _)
SitLoop(score, sits, locs, k) ==
    IF k = 0 THEN <<>>
    ELSE SitLoop(score, sits, locs, k - 1) \o LocLoop(score, sits[k], locs)

\* a slip: the scores are enumerated from the highest down
RECURSIVE ScoreLoop_descending(_, _, _, _)
ScoreLoop_descending(scores, sits, locs, k) ==
    IF k = 0 THEN <<>>
    ELSE SitLoop(scores[k], sits, locs, Len(sits)) \o ScoreLoop_descending(scores, sits, locs, k - 1)

\* for score in self.score_range
RECURSIVE ScoreLoop(_, _, _, _)
ScoreLoop(scores, sits, locs, k) ==
    IF k = 0 THEN <<>>
    ELSE ScoreLoop(scores, sits, locs, k - 1) \o SitLoop(scores[k], sits, locs, Len(sits))

\* self.states[(score, sit, loc)] = idx; idx += 1: the p-th iteration assigns
\* idx = p - 1, and a key assigned twice keeps the later index.
Enumerate(scores, sits, locs) ==
    LET its == ScoreLoop(scores, sits, locs, Len(scores))
    IN [key \in {its[p] : p \in DOMAIN its} |->
           (CHOOSE p \in DOMAIN its :
               /\ its[p] = key
               /\ \A q \in p + 1 .. Len(its) : its[q] # key) - 1]

InitStates == Enumerate(score_range, situations, locations)

\* self.states.get((score, situation, location))
state_to_idx(st, s) == IF s \in DOMAIN st THEN st[s] ELSE None

----------------------------------------------------------------------------
(* Inputs *)

s0 == <<0, 1551, "N">>
s1 == <<1, 1551, "O">>
BadScore == <<7, 1551, "N">>
BadSituation == <<0, 1500, "N">>
BadLocation == <<0, 1551, "-">>

ValidInputs == {s0, s1}
InvalidInputs == {BadScore, BadSituation, BadLocation}

Scenario == <<s0, s1, s0, s1>>

\* the games accumulated: empty, one state, a pair dropped and a pair counted,
\* a repeated pair, every pair dropped, and the four-state scenario
Games == {<<>>, <<s0>>, <<BadScore, s0, s1>>, <<s0, s0, s0>>,
          <<s0, BadSituation, s1>>, Scenario}

Horizons == 0 .. MaxSteps

NoCall == [op |-> "init", game |-> <<>>, idx |-> 0, n |-> 0, raised |-> "",
           fresh |-> TRUE, hit |-> FALSE, normalized |-> FALSE]
NoTwin == [phase |-> "idle", transitions |-> [p \in {} |-> <<0, 1>>],
           is_normalized |-> FALSE, first |-> <<>>, second |-> <<>>, raw |-> FALSE]
NoApi == [called |-> FALSE, status_code |-> 200, games |-> <<>>, home_team |-> "",
          away_team |-> "", date |-> "", raised |-> "", value |-> <<>>]
NoTimeline == [phase |-> "idle", plays |-> <<>>, goals_timeline |-> <<>>,
               situations_timeline |-> <<>>, location_last_plays_timeline |-> <<>>]
NoRace == [phase |-> "idle", n |-> 0, open |-> {}, torn |-> FALSE, p |-> <<>>]
NoResult == [returned |-> FALSE, value |-> [i \in {} |-> <<0, 1>>]]
NoFile == [exists |-> FALSE, transitions |-> [p \in {} |-> <<0, 1>>],
           is_normalized |-> FALSE, states |-> [k \in {} |-> 0],
           observed |-> [p \in {} |-> <<0, 1>>], preSums |-> [i \in {} |-> <<0, 1>>],
           dirty |-> FALSE]

----------------------------------------------------------------------------
(* History: what has been observed, counted without running the loop *)

ResolvedAt(st, game) ==
    {t \in 1 .. Len(game) - 1 :
        state_to_idx(st, game[t]) # None /\ state_to_idx(st, game[t + 1]) # None}

PairAt(st, game, t) == <<state_to_idx(st, game[t]), state_to_idx(st, game[t + 1])>>

CountMatrix(st, game) ==
    LET ts == ResolvedAt(st, game)
    IN [p \in {PairAt(st, game, t) : t \in ts} |->
           <<Cardinality({t \in ts : PairAt(st, game, t) = p}), 1>>]

MatAdd(A, B) == [p \in DOMAIN A \cup DOMAIN B |-> RAdd(At(A, p[1], p[2]), At(B, p[1], p[2]))]

----------------------------------------------------------------------------
(* The operations of NHLMarkovModel *)

\* __init__: the model as constructed; nothing on disk
Init ==
    /\ states = InitStates
    /\ n_states = Cardinality(DOMAIN InitStates)
    /\ transitions = Zeros
    /\ is_normalized = FALSE
    /\ file = NoFile
    /\ cache = [n \in {} |-> Zeros]
    /\ result = NoResult
    /\ lastCall = NoCall
    /\ observed = Zeros
    /\ preSums = [i \in {} |-> Zero]
    /\ dirty = FALSE
    /\ calls = 0
    /\ twin = NoTwin
    /\ api = NoApi
    /\ timeline = NoTimeline
    /\ race = NoRace

\* the model is as __init__ leaves it
IsFresh == transitions = Zeros /\ ~is_normalized

\* a slip: a running average, the row is rescaled to sum 1 as each pair is counted
Increment_running(M, i, j) ==
    LET total == RAdd(SumOver({p \in DOMAIN M : p[1] = i}, M), <<1, 1>>)
    IN [p \in DOMAIN M \cup {<<i, j>>} |->
           IF p[1] # i THEN M[p]
           ELSE IF p = <<i, j>> THEN RDiv(RAdd(IF p \in DOMAIN M THEN M[p] ELSE <<0, 1>>, <<1, 1>>), total)
           ELSE RDiv(M[p], total)]

\* a slip: the count goes to the transposed entry
Increment_transposed(M, i, j) ==
    [p \in DOMAIN M \cup {<<j, i>>} |-> IF p = <<j, i>> THEN RAdd(At(M, j, i), One) ELSE M[p]]

\* self.transitions[current_state, next_state] += 1
Increment(M, i, j) ==
    [p \in DOMAIN M \cup {<<i, j>>} |-> IF p = <<i, j>> THEN RAdd(At(M, i, j), One) ELSE M[p]]

\* for t in range(len(goals) - 1): game[t] is (goals[t], situations[t], locations[t])
RECURSIVE Accumulate(_, _, _, _)
Accumulate(M, st, game, t) ==
    IF t > Len(game) - 1 THEN M
    ELSE LET current_state == state_to_idx(st, game[t])
             next_state == state_to_idx(st, game[t + 1])
         IN Accumulate(IF current_state # None /\ next_state # None
                          THEN Increment(M, current_state, next_state)
                          ELSE M,
                       st, game, t + 1)

\* a slip: the flag is cleared inside the if, so only when a pair was counted
update_transitions_flagInsideIf(game) ==
    /\ calls < MaxCalls
    /\ transitions' = Accumulate(transitions, states, game, 1)
    /\ is_normalized' = IF ResolvedAt(states, game) # {} THEN FALSE ELSE is_normalized
    /\ result' = NoResult
    /\ lastCall' = [NoCall EXCEPT !.op = "update_transitions", !.game = game,
                                  !.fresh = IsFresh]
    /\ observed' = MatAdd(observed, CountMatrix(states, game))
    /\ dirty' = TRUE
    /\ calls' = calls + 1
    /\ UNCHANGED <<states, n_states, file, cache, preSums>>

update_transitions(game) ==
    /\ calls < MaxCalls
    /\ transitions' = Accumulate(transitions, states, game, 1)
    /\ is_normalized' = FALSE
    /\ result' = NoResult
    /\ lastCall' = [NoCall EXCEPT !.op = "update_transitions", !.game = game,
                                  !.fresh = IsFresh]
    /\ observed' = MatAdd(observed, CountMatrix(states, game))
    /\ dirty' = TRUE
    /\ calls' = calls + 1
    /\ UNCHANGED <<states, n_states, file, cache, preSums>>

\* a slip: zero rows are guarded against by adding 1 to every row sum
Normalized_smoothed(M) ==
    [p \in DOMAIN M |-> RDiv(M[p], RAdd(RowSum(M, p[1]), One))]

\* mask = row_sums > 0; transitions[mask] = transitions[mask] / row_sums[mask]
Normalized(M) ==
    [p \in DOMAIN M |->
        IF RPos(RowSum(M, p[1])) THEN RDiv(M[p], RowSum(M, p[1])) ELSE M[p]]

\* the positive entries of row_sums
PositiveRowSums(M) == [i \in {r \in Rows(M) : RPos(RowSum(M, r))} |-> RowSum(M, i)]

normalize ==
    /\ calls < MaxCalls
    /\ transitions' = Normalized(transitions)
    /\ is_normalized' = TRUE
    /\ result' = NoResult
    /\ lastCall' = [NoCall EXCEPT !.op = "normalize", !.fresh = IsFresh,
                                  !.normalized = is_normalized]
    /\ preSums' = PositiveRowSums(transitions)
    /\ dirty' = FALSE
    /\ calls' = calls + 1
    /\ UNCHANGED <<states, n_states, file, cache, observed>>

\* state_probabilities = np.zeros(n); state_probabilities[current_state] = 1.0
OneHot(n, current_state) == [i \in {current_state} \cap (0 .. n - 1) |-> One]

\* a slip: the check for an unresolved initial state is missing
InvalidInitial_unchecked(current_state) == FALSE

\* if current_state is None: raise ValueError
InvalidInitial(current_state) == current_state = None

\* a slip: one transition too many
Power_offByOne(M, n_steps, size) == matrix_power(M, n_steps + 1, size)

\* np.linalg.matrix_power(self.transitions, n_steps)
Power(M, n_steps, size) == matrix_power(M, n_steps, size)

\* a slip: the stored power is never looked up, every call recomputes and
\* overwrites it
CacheHas_never(c, n_steps) == FALSE

\* os.path.exists(f"matrices/{n_steps}.npy")
CacheHas(c, n_steps) == n_steps \in DOMAIN c

\* a slip: the initial state is resolved, and the error raised, before the lazy
\* normalization
propagate_resolveFirst(s, n_steps) ==
    LET lazy == ~is_normalized
        M == IF lazy THEN Normalized(transitions) ELSE transitions
        current_state == state_to_idx(states, s)
        hit == CacheHas(cache, n_steps)
        matrix == IF hit THEN cache[n_steps] ELSE Power(M, n_steps, n_states)
        call == [NoCall EXCEPT !.op = "propagate", !.idx = current_state, !.n = n_steps,
                               !.fresh = IsFresh, !.normalized = is_normalized]
    IN /\ calls < MaxCalls
       /\ IF InvalidInitial(current_state)
          THEN /\ UNCHANGED <<transitions, is_normalized, preSums, dirty>>
          ELSE /\ transitions' = M
               /\ is_normalized' = TRUE
               /\ preSums' = IF lazy THEN PositiveRowSums(transitions) ELSE preSums
               /\ dirty' = IF lazy THEN FALSE ELSE dirty
       /\ IF InvalidInitial(current_state)
          THEN /\ result' = NoResult
               /\ lastCall' = [call EXCEPT !.raised = "ValueError"]
               /\ cache' = cache
          ELSE /\ result' = [returned |-> TRUE,
                             value |-> VecMat(OneHot(n_states, current_state), matrix)]
               /\ lastCall' = [call EXCEPT !.hit = hit]
               /\ cache' = IF hit THEN cache ELSE (n_steps :> matrix) @@ cache
       /\ calls' = calls + 1
       /\ UNCHANGED <<states, n_states, file, observed>>

\* propagate: lazy normalize, resolve the initial state, take the power from
\* the cache or compute and store it, return one-hot @ power
propagate(s, n_steps) ==
    LET lazy == ~is_normalized
        M == IF lazy THEN Normalized(transitions) ELSE transitions
        current_state == state_to_idx(states, s)
        hit == CacheHas(cache, n_steps)
        matrix == IF hit THEN cache[n_steps] ELSE Power(M, n_steps, n_states)
        call == [NoCall EXCEPT !.op = "propagate", !.idx = current_state, !.n = n_steps,
                               !.fresh = IsFresh, !.normalized = is_normalized]
    IN /\ calls < MaxCalls
       /\ transitions' = M
       /\ is_normalized' = TRUE
       /\ preSums' = IF lazy THEN PositiveRowSums(transitions) ELSE preSums
       /\ dirty' = IF lazy THEN FALSE ELSE dirty
       /\ IF InvalidInitial(current_state)
          THEN /\ result' = NoResult
               /\ lastCall' = [call EXCEPT !.raised = "ValueError"]
               /\ cache' = cache
          ELSE /\ result' = [returned |-> TRUE,
                             value |-> VecMat(OneHot(n_states, current_state), matrix)]
               /\ lastCall' = [call EXCEPT !.hit = hit]
               /\ cache' = IF hit THEN cache ELSE (n_steps :> matrix) @@ cache
       /\ calls' = calls + 1
       /\ UNCHANGED <<states, n_states, file, observed>>

\* pickle.dump({'transitions': ..., 'is_normalized': ..., 'states': ...}, f)
save ==
    /\ calls < MaxCalls
    /\ file' = [exists |-> TRUE, transitions |-> transitions,
                is_normalized |-> is_normalized, states |-> states,
                observed |-> observed, preSums |-> preSums, dirty |-> dirty]
    /\ result' = NoResult
    /\ lastCall' = [NoCall EXCEPT !.op = "save", !.fresh = IsFresh]
    /\ calls' = calls + 1
    /\ UNCHANGED <<states, n_states, transitions, is_normalized, cache, observed,
                   preSums, dirty>>

\* a slip: the pickled flag is not restored, the constructor's value stays
load_flagNotRestored ==
    /\ calls < MaxCalls
    /\ calls' = calls + 1
    /\ result' = NoResult
    /\ IF ~file.exists
       THEN /\ lastCall' = [NoCall EXCEPT !.op = "load", !.raised = "FileNotFoundError",
                                          !.fresh = IsFresh]
            /\ UNCHANGED <<states, n_states, transitions, is_normalized, file, cache,
                           observed, preSums, dirty>>
       ELSE /\ n_states' = Cardinality(DOMAIN InitStates)
            /\ transitions' = file.transitions
            /\ is_normalized' = FALSE
            /\ states' = file.states
            /\ observed' = file.observed
            /\ preSums' = file.preSums
            /\ dirty' = file.dirty
            /\ lastCall' = [NoCall EXCEPT !.op = "load", !.fresh = IsFresh]
            /\ UNCHANGED <<file, cache>>

\* model = NHLMarkovModel.load(filepath): cls() builds a model and the three
\* pickled fields replace its own; open() raises when the file is missing and
\* the caller keeps the model it had.
load ==
    /\ calls < MaxCalls
    /\ calls' = calls + 1
    /\ result' = NoResult
    /\ IF ~file.exists
       THEN /\ lastCall' = [NoCall EXCEPT !.op = "load", !.raised = "FileNotFoundError",
                                          !.fresh = IsFresh]
            /\ UNCHANGED <<states, n_states, transitions, is_normalized, file, cache,
                           observed, preSums, dirty>>
       ELSE /\ n_states' = Cardinality(DOMAIN InitStates)
            /\ transitions' = file.transitions
            /\ is_normalized' = file.is_normalized
            /\ states' = file.states
            /\ observed' = file.observed
            /\ preSums' = file.preSums
            /\ dirty' = file.dirty
            /\ lastCall' = [NoCall EXCEPT !.op = "load", !.fresh = IsFresh]
            /\ UNCHANGED <<file, cache>>

\* one model object is driven; nothing else exists
Alone == UNCHANGED <<twin, api, timeline, race>>

Next ==
    \/ (\E game \in Games : update_transitions(game)) /\ Alone
    \/ normalize /\ Alone
    \/ (\E s \in ValidInputs \cup InvalidInputs, n \in Horizons : propagate(s, n)) /\ Alone
    \/ save /\ Alone
    \/ load /\ Alone

Spec == Init /\ [][Next]_vars

----------------------------------------------------------------------------
(* The consumer of propagate: plot_specific_game *)

\* trajectories[0:342], trajectories[342:342+57], trajectories[342+57:741]
AwayWinSlice == 0 .. 342 - 1
DrawSlice == 342 .. 342 + 57 - 1
HomeWinSlice == 342 + 57 .. 741 - 1

----------------------------------------------------------------------------
(* What the claims speak of *)

\* the distribution after n transitions of M from v, one transition at a time
RECURSIVE StepDist(_, _, _)
StepDist(v, M, n) == IF n = 0 THEN v ELSE StepDist(VecMat(v, M), M, n - 1)

Propagated == lastCall.op = "propagate" /\ lastCall.raised = ""
Accumulated == lastCall.op = "update_transitions"

i0 == InitStates[s0]
i1 == InitStates[s1]

\* C1: a successful propagate(s, n) returns the one-hot vector at state_to_idx(s)
\* times the n-th power of the normalized matrix the model holds at the time of
\* the call, whatever the cache holds for n.
C1_PropagateIsNStepDistribution ==
    Propagated =>
        /\ result.returned
        /\ result.value = StepDist(OneHot(n_states, lastCall.idx), transitions, lastCall.n)

\* C2: while is_normalized is true, every row whose sum before the last
\* normalization was positive sums to 1, and every other row is identically zero
\* (no non-zero entry lies in a row outside those of positive sum).
C2_NormalizedRows ==
    is_normalized =>
        /\ \A i \in DOMAIN preSums : RowSum(transitions, i) = One
        /\ \A p \in DOMAIN transitions : p[1] \in DOMAIN preSums

\* a normalize() that rescaled a row of sum 2 and left the row of s1 zero
C2_Witness ==
    /\ is_normalized
    /\ lastCall.op = "normalize"
    /\ i0 \in DOMAIN preSums /\ preSums[i0] = <<2, 1>>
    /\ RowSum(transitions, i0) = One
    /\ i1 \notin Rows(transitions)

\* C3: on a freshly created model update_transitions adds exactly 1 to (i, j)
\* for each resolved consecutive pair, nothing for a pair with an unresolved
\* state, raises nothing, and changes nothing for a sequence of length 0 or 1;
\* [s0, s1, s0, s1] gives count(s0,s1) = 2, count(s1,s0) = 1, count(s1,s1) = 0.
C3_FreshAccumulationCounts ==
    (Accumulated /\ lastCall.fresh) =>
        /\ lastCall.raised = ""
        /\ transitions = CountMatrix(states, lastCall.game)
        /\ Len(lastCall.game) <= 1 => transitions = Zeros
        /\ lastCall.game = Scenario =>
              /\ At(transitions, i0, i1) = <<2, 1>>
              /\ At(transitions, i1, i0) = One
              /\ At(transitions, i1, i1) = Zero

\* the scenario accumulated into a fresh model
C3_Witness ==
    /\ Accumulated /\ lastCall.fresh
    /\ lastCall.game = Scenario
    /\ transitions # Zeros

\* a game with an unresolved state accumulated into a fresh model: one pair
\* dropped, one counted
C3_WitnessDropped ==
    /\ Accumulated /\ lastCall.fresh
    /\ lastCall.game = <<BadScore, s0, s1>>
    /\ transitions = [p \in {<<i0, i1>>} |-> One]

\* the declared domain: 13 score differentials, 19 situation codes, 3 zones
DeclaredDomain ==
    {<<d, situations[c], z>> : d \in -6 .. 6, c \in DOMAIN situations, z \in {"O", "N", "D"}}

IndicesOf(st, K) == {st[k] : k \in K}

\* st has the declared domain and takes each of 0 .. N-1; with N keys and N
\* indices no two keys share one
Bijective(st) ==
    LET N == 13 * 19 * 3
    IN /\ DOMAIN st = DeclaredDomain
       /\ Cardinality(DOMAIN st) = N
       /\ IndicesOf(st, DOMAIN st) = 0 .. N - 1
       /\ \A j, k \in DOMAIN st : st[j] = st[k] => j = k

ConstructedIsBijective == Bijective(InitStates)

\* the model's mapping is the one __init__ built, which is a bijection
C4_Bijective ==
    /\ states = InitStates
    /\ n_states = 13 * 19 * 3
    /\ ConstructedIsBijective

C4_OnlyLoadChangesMapping ==
    [][states' # states => (lastCall'.op = "load" /\ lastCall'.raised = "")]_vars

\* C4: state_to_idx on the declared domain is a bijection onto 0 .. 740 (no two
\* triples share an index, every index is taken), fixed at construction: no
\* operation other than load changes the mapping.
C4_StateSpaceBijection == []C4_Bijective /\ C4_OnlyLoadChangesMapping

\* a model that went through accumulation and a load, its last triple at 740
C4_Witness ==
    /\ lastCall.op = "load" /\ lastCall.raised = ""
    /\ transitions # Zeros
    /\ state_to_idx(states, <<6, 1331, "D">>) = 740
    /\ state_to_idx(states, <<-6, 641, "O">>) = 0

\* C5: the states of score differential d have exactly the indices
\* (d+6)*57 .. (d+7)*57 - 1, so the three slices the consumer sums are the
\* states of negative, zero and positive score differential.
Block(d) == (d + 6) * 57 .. (d + 7) * 57 - 1

ScoreBlocks(st) ==
    /\ \A d \in -6 .. 6 : IndicesOf(st, {k \in DOMAIN st : k[1] = d}) = Block(d)
    /\ IndicesOf(st, {k \in DOMAIN st : k[1] < 0}) = AwayWinSlice
    /\ IndicesOf(st, {k \in DOMAIN st : k[1] = 0}) = DrawSlice
    /\ IndicesOf(st, {k \in DOMAIN st : k[1] > 0}) = HomeWinSlice

ConstructedInScoreBlocks == ScoreBlocks(InitStates)

C5_ScoreBlocks ==
    /\ states = InitStates
    /\ ConstructedInScoreBlocks

\* a propagate from a tied state whose whole mass moved to a state where home leads
C5_Witness ==
    /\ Propagated /\ lastCall.n = 1
    /\ lastCall.idx \in DrawSlice
    /\ DOMAIN result.value # {}
    /\ DOMAIN result.value \subseteq HomeWinSlice

\* C6: propagate from a triple state_to_idx does not resolve raises ValueError
\* for every horizon and returns no vector; no other operation reports an
\* unresolved state as an error.
C6_InvalidInitialRaises ==
    /\ (lastCall.op = "propagate" /\ lastCall.idx = None) =>
          (lastCall.raised = "ValueError" /\ ~result.returned)
    /\ lastCall.raised = "ValueError" => (lastCall.op = "propagate" /\ lastCall.idx = None)
    /\ Accumulated => lastCall.raised = ""

\* a propagate from an unresolved triple at the largest horizon, on a model
\* that holds counts
C6_Witness ==
    /\ lastCall.op = "propagate" /\ lastCall.idx = None
    /\ lastCall.n = MaxSteps
    /\ lastCall.raised = "ValueError"
    /\ transitions # Zeros

\* C7: propagate(s, 0) from a valid state returns the vector that is 1 at
\* state_to_idx(s) and 0 elsewhere, also when the cache already holds entries.
C7_IdentityHorizon ==
    (Propagated /\ lastCall.n = 0) =>
        /\ result.returned
        /\ result.value = [i \in {lastCall.idx} |-> One]
        /\ lastCall.idx \in 0 .. n_states - 1

\* propagate(s, 0) answered from the cache entry an earlier propagate wrote, on
\* a model that holds counts
C7_Witness ==
    /\ Propagated /\ lastCall.n = 0 /\ lastCall.hit
    /\ transitions # Zeros
    /\ result.returned

\* C8: update_transitions leaves is_normalized false whatever the sequence, so
\* is_normalized is true only if nothing was accumulated since the last normalize.
C8_AccumulationClearsFlag ==
    /\ Accumulated => ~is_normalized
    /\ is_normalized => ~dirty

\* an accumulation that counts nothing, on a model normalized before
C8_Witness ==
    /\ Accumulated
    /\ ResolvedAt(states, lastCall.game) = {}
    /\ preSums # [i \in {} |-> Zero]
    /\ ~is_normalized

\* C9: whenever is_normalized is false, every entry of the matrix is the number
\* of resolved pairs accumulated since the model was created.
C9_RawMatrixHoldsCounts == ~is_normalized => transitions = observed

C10_LoadRestores ==
    (lastCall.op = "load" /\ lastCall.raised = "") =>
        /\ file.exists
        /\ transitions = file.transitions
        /\ is_normalized = file.is_normalized
        /\ states = file.states

C10_SaveSnapshots ==
    [][/\ lastCall'.op = "save" =>
            /\ file'.exists
            /\ file'.transitions = transitions
            /\ file'.is_normalized = is_normalized
            /\ file'.states = states
            /\ UNCHANGED <<transitions, is_normalized, states, n_states>>
       /\ file' # file => lastCall'.op = "save"]_vars

\* C10: load(save(m)) has the matrix, the flag and the mapping m had when it
\* was saved (the mapping is the pickled one), and save changes nothing in m.
C10_RoundTrip == []C10_LoadRestores /\ C10_SaveSnapshots

\* a normalized model whose counts were rescaled, saved and loaded back
C10_Witness ==
    /\ lastCall.op = "load" /\ lastCall.raised = ""
    /\ is_normalized
    /\ transitions # Zeros
    /\ observed # transitions

\* C13: normalize is idempotent: on a model that is normalized and has had no
\* accumulation since, normalize() leaves the matrix and the flag as they were.
C13_NormalizeIdempotent ==
    [][(lastCall'.op = "normalize" /\ is_normalized /\ ~dirty) =>
           (transitions' = transitions /\ is_normalized' = is_normalized)]_vars

\* a second normalize() on a model whose row of sum 2 had been rescaled
C13_Witness ==
    /\ lastCall.op = "normalize" /\ lastCall.normalized
    /\ is_normalized
    /\ observed # transitions
    /\ At(observed, i0, i0) = <<2, 1>>
    /\ At(transitions, i0, i0) = One

\* N is M with every row of positive sum divided by that sum
IsNormalizedFormOf(N, M) ==
    /\ DOMAIN N = DOMAIN M
    /\ \A p \in DOMAIN M :
          IF RPos(RowSum(M, p[1])) THEN RMul(N[p], RowSum(M, p[1])) = M[p] ELSE N[p] = M[p]

\* C16: propagate changes the model only through lazy normalization: on a
\* normalized model it leaves matrix, flag and mapping unchanged; on a raw model
\* it replaces the matrix by its normalized form and sets the flag, also when
\* the call then fails on an invalid initial state; a failing call neither
\* reads nor writes a cache entry.
C16_PropagateFrame ==
    [][lastCall'.op = "propagate" =>
          /\ states' = states /\ n_states' = n_states /\ file' = file
          /\ is_normalized => (transitions' = transitions /\ is_normalized')
          /\ ~is_normalized => (is_normalized' /\ IsNormalizedFormOf(transitions', transitions))
          /\ lastCall'.raised # "" => (cache' = cache /\ ~lastCall'.hit)]_vars

\* a propagate that failed on an invalid initial state of a raw model and
\* rescaled its row of sum 2 all the same
C16_Witness ==
    /\ lastCall.op = "propagate" /\ lastCall.raised = "ValueError"
    /\ ~lastCall.normalized
    /\ is_normalized
    /\ i0 \in DOMAIN preSums /\ preSums[i0] = <<2, 1>>
    /\ RowSum(transitions, i0) = One
    /\ observed # transitions

\* the n-th power taken from the left: M . M^(n-1)
RECURSIVE PowerLeft(_, _, _)
PowerLeft(M, n, size) ==
    IF n = 0 THEN Eye(size)
    ELSE IF n = 1 THEN M
    ELSE MatMul(M, PowerLeft(M, n - 1, size))

\* row i of a stored matrix
RowOf(M, i) == [j \in {p[2] : p \in {q \in DOMAIN M : q[1] = i}} |-> M[<<i, j>>]]

C17_EntryExistsAfterPropagate == Propagated => lastCall.n \in DOMAIN cache

C17_CacheSteps ==
    [][/\ \A n \in DOMAIN cache : n \in DOMAIN cache' /\ cache'[n] = cache[n]
       /\ \A n \in DOMAIN cache' \ DOMAIN cache :
             /\ lastCall'.op = "propagate" /\ lastCall'.raised = ""
             /\ lastCall'.n = n /\ ~lastCall'.hit
             /\ cache'[n] = PowerLeft(transitions', n, n_states)
       /\ (lastCall'.op = "propagate" /\ lastCall'.raised = "" /\ lastCall'.n \in DOMAIN cache) =>
             /\ lastCall'.hit
             /\ result'.value = RowOf(cache[lastCall'.n], lastCall'.idx)]_vars

\* C17: within one process the power cache is write-once per horizon: an entry
\* for n is created only by a successful propagate of horizon n that found none,
\* holds the n-th power of the normalized matrix of that moment, is never
\* modified or removed by a later call, is what every later successful
\* propagate of horizon n uses, and exists after any successful propagate(s, n).
C17_CacheWriteOnce == []C17_EntryExistsAfterPropagate /\ C17_CacheSteps

\* a successful propagate answered from an entry that no longer is the power
\* of the model's matrix: the entry outlived an accumulation
C17_Witness ==
    /\ Propagated /\ lastCall.hit /\ lastCall.n = 1
    /\ cache[1] # PowerLeft(transitions, 1, n_states)
    /\ result.value = RowOf(cache[1], lastCall.idx)

\* the mass of v on the indices in S
Mass(v, S) == SumOver(DOMAIN v \cap S, v)

\* the mass that sat on an all-zero row of M at one of the first n transitions
\* from v, and so left the distribution
RECURSIVE LostMass(_, _, _)
LostMass(v, M, n) ==
    IF n = 0 THEN Zero
    ELSE RAdd(Mass(v, DOMAIN v \ Rows(M)), LostMass(VecMat(v, M), M, n - 1))

AwayWin == Mass(result.value, AwayWinSlice)
Draw == Mass(result.value, DrawSlice)
HomeWin == Mass(result.value, HomeWinSlice)

\* the three outcome sums are fractions >= 0 that cover the whole vector, and
\* their total is at most 1
C12_OutcomeSums ==
    Propagated =>
        LET total == RAdd(AwayWin, RAdd(Draw, HomeWin))
        IN /\ AwayWin[1] >= 0 /\ Draw[1] >= 0 /\ HomeWin[1] >= 0
           /\ total = Mass(result.value, DOMAIN result.value)
           /\ total[1] <= total[2]

\* C12: if every row of the normalized matrix is non-zero the entries of
\* propagate(s, n) sum to 1; in general the three outcome sums are each >= 0
\* and total at most 1, the missing mass being exactly the mass that reached
\* all-zero rows of the model's normalized matrix.
C12_MassAccounting ==
    /\ C12_OutcomeSums
    /\ Propagated =>
          LET total == Mass(result.value, DOMAIN result.value)
              v == OneHot(n_states, lastCall.idx)
          IN /\ RAdd(total, LostMass(v, transitions, lastCall.n)) = One
             /\ Rows(transitions) = 0 .. n_states - 1 => total = One

----------------------------------------------------------------------------
(* Two games accumulated in both orders: the model takes A then B, a second *)
(* model object that starts from the same matrix takes B then A             *)

\* the starting matrix is whatever accumulation and normalization left
OrderPrefix ==
    /\ twin.phase = "idle"
    /\ (\E game \in Games : update_transitions(game)) \/ normalize
    /\ UNCHANGED twin

\* model.update_transitions(A); other.update_transitions(B)
OrderFirst(A, B) ==
    /\ twin.phase = "idle"
    /\ update_transitions(A)
    /\ twin' = [phase |-> "half",
                transitions |-> Accumulate(transitions, states, B, 1),
                is_normalized |-> FALSE,
                first |-> A, second |-> B, raw |-> ~is_normalized]

\* model.update_transitions(B); other.update_transitions(A)
OrderSecond ==
    /\ twin.phase = "half"
    /\ update_transitions(twin.second)
    /\ twin' = [twin EXCEPT !.phase = "done",
                            !.transitions = Accumulate(twin.transitions, states, twin.first, 1),
                            !.is_normalized = FALSE]

\* nothing but the two model objects is involved
OrderFrame == UNCHANGED <<api, timeline, race>>

OrderNext ==
    \/ OrderPrefix /\ OrderFrame
    \/ (\E A, B \in Games : OrderFirst(A, B)) /\ OrderFrame
    \/ OrderSecond /\ OrderFrame

SpecOrder == Init /\ [][OrderNext]_vars

Reordered == <<s0, s0, s1, s1>>

\* the states of Scenario in another order give another matrix
C11_OrderWithinMatters ==
    /\ \A x \in {s0, s1} :
          Cardinality({t \in DOMAIN Scenario : Scenario[t] = x}) =
          Cardinality({t \in DOMAIN Reordered : Reordered[t] = x})
    /\ Accumulate(Zeros, InitStates, Scenario, 1) # Accumulate(Zeros, InitStates, Reordered, 1)

\* C11: from any starting raw matrix, update_transitions(A) then (B) yields the
\* same matrix and flag as update_transitions(B) then (A); reordering the
\* states inside one sequence need not preserve the result (and does not).
C11_GamesCommute ==
    /\ twin.phase = "done" =>
          /\ transitions = twin.transitions
          /\ is_normalized = twin.is_normalized
          /\ ~is_normalized
    /\ C11_OrderWithinMatters

\* two different games that both count pairs in the row of s0, accumulated in
\* both orders into a raw matrix that already held the counts of Scenario
C11_Witness ==
    /\ twin.phase = "done" /\ twin.raw
    /\ twin.first = <<s0, s0, s0>> /\ twin.second = <<BadScore, s0, s1>>
    /\ At(transitions, i1, i0) = One
    /\ At(transitions, i0, i0) = <<2, 1>> /\ At(transitions, i0, i1) = <<3, 1>>

----------------------------------------------------------------------------
(* handle_api.get_game_id: one call against what the score API serves *)

MaxGames == 2

\* Optional values: None and a present value
Nothing == <<>>
Some(x) == <<x>>

\* date is None
NoDate == ""

Teams == {"TOR", "MTL"}
Dates == {"2024-01-13", "2024-01-14"}

Game(id, gameDate, home, away, gameState) ==
    [id |-> id, gameDate |-> gameDate, homeTeam |-> [abbrev |-> home],
     awayTeam |-> [abbrev |-> away], gameState |-> gameState]

\* what the API may list: two games of the same teams and date, one of another
\* date, one with home and away swapped
Listed == {Game(1, "2024-01-13", "TOR", "MTL", "LIVE"),
           Game(2, "2024-01-13", "TOR", "MTL", "FINAL"),
           Game(3, "2024-01-14", "TOR", "MTL", "OFF"),
           Game(4, "2024-01-13", "MTL", "TOR", "LIVE")}

GameLists == UNION {[1 .. n -> Listed] : n \in 0 .. MaxGames}

\* the condition of the if at line 119 or line 124
Matches(game, home_team, away_team, date) ==
    IF date = NoDate
    THEN game.awayTeam.abbrev = away_team /\ game.homeTeam.abbrev = home_team
    ELSE /\ game.gameDate = date
         /\ game.awayTeam.abbrev = away_team /\ game.homeTeam.abbrev = home_team

\* for game in data["games"]: return at the first match; raise after the loop
RECURSIVE GameLoop(_, _, _, _, _)
GameLoop(games, k, home_team, away_team, date) ==
    IF k > Len(games)
    THEN [raised |-> "ValueError", value |-> Nothing]
    ELSE IF Matches(games[k], home_team, away_team, date)
         THEN [raised |-> "", value |-> <<Some(games[k].id), Some(games[k].gameState = "LIVE")>>]
         ELSE GameLoop(games, k + 1, home_team, away_team, date)

\* a response other than 200 leaves data unbound, and data["games"] raises
get_game_id(home_team, away_team, date, status_code, games) ==
    LET outcome == IF status_code = 200
                   THEN GameLoop(games, 1, home_team, away_team, date)
                   ELSE [raised |-> "UnboundLocalError", value |-> Nothing]
    IN /\ ~api.called
       /\ api' = [called |-> TRUE, status_code |-> status_code,
                  games |-> IF status_code = 200 THEN games ELSE <<>>,
                  home_team |-> home_team, away_team |-> away_team, date |-> date,
                  raised |-> outcome.raised, value |-> outcome.value]
       /\ UNCHANGED <<modelVars, twin, timeline, race>>

\* the application asks again
Rerun ==
    /\ api.called
    /\ api' = NoApi
    /\ UNCHANGED <<modelVars, twin, timeline, race>>

ApiNext ==
    \/ \E home_team, away_team \in Teams, date \in Dates \cup {NoDate},
          status_code \in {200, 503}, games \in GameLists :
            get_game_id(home_team, away_team, date, status_code, games)
    \/ Rerun

SpecApi == Init /\ [][ApiNext]_vars

\* the positions of the listed games that match the arguments of the call
MatchingAt ==
    {k \in DOMAIN api.games :
        /\ api.games[k].homeTeam.abbrev = api.home_team
        /\ api.games[k].awayTeam.abbrev = api.away_team
        /\ api.date # NoDate => api.games[k].gameDate = api.date}

Answered == api.called /\ api.status_code = 200

\* with a match, the call returns the id and live status of the first one
C15_FirstMatch ==
    (Answered /\ MatchingAt # {}) =>
        LET k == CHOOSE k \in MatchingAt : \A m \in MatchingAt : k <= m
        IN /\ api.raised = ""
           /\ api.value = <<Some(api.games[k].id), Some(api.games[k].gameState = "LIVE")>>

\* C15: get_game_id returns (id, is_live) of the first listed game whose home
\* and away abbreviations (and date, when given) match, and returns
\* (None, None) when no listed game matches.
C15_GetGameId ==
    /\ C15_FirstMatch
    /\ (Answered /\ MatchingAt = {}) =>
          /\ api.raised = ""
          /\ api.value = <<Nothing, Nothing>>

----------------------------------------------------------------------------
(* process_game.create_score_timeline: the plays of one game turned into *)
(* the three arrays the model is trained on                               *)

MaxPlays == 2

\* the arrays have one entry per 10 seconds of regulation
Ticks == 360

\* a situation code is a string of four digits
relevant_situation_codes ==
    << <<0, 6, 4, 1>>, <<1, 4, 6, 0>>,
       <<0, 6, 5, 1>>, <<1, 5, 6, 0>>,
       <<1, 5, 4, 1>>, <<1, 4, 5, 1>>,
       <<1, 5, 5, 1>>,
       <<1, 5, 5, 0>>, <<0, 5, 5, 1>>,
       <<1, 5, 3, 1>>, <<1, 3, 5, 1>>,
       <<0, 5, 4, 1>>, <<1, 4, 5, 0>>,
       <<0, 5, 3, 1>>, <<1, 3, 5, 0>>,
       <<1, 4, 4, 1>>,
       <<1, 4, 3, 1>>, <<1, 3, 4, 1>>,
       <<1, 3, 3, 1>> >>

\* s[::-1]
Reversed(s) == [k \in 1 .. Len(s) |-> s[Len(s) + 1 - k]]

\* int(s) of a string of decimal digits
RECURSIVE IntOf(_)
IntOf(s) == IF s = <<>> THEN 0 ELSE 10 * IntOf(SubSeq(s, 1, Len(s) - 1)) + s[Len(s)]

\* round(x, -1) for x >= 0: to the nearest multiple of 10, a tie to the even one
RoundToTens(x) ==
    LET q == x \div 10
        r == x % 10
    IN IF r < 5 THEN 10 * q
       ELSE IF r > 5 THEN 10 * (q + 1)
       ELSE IF q % 2 = 0 THEN 10 * q ELSE 10 * (q + 1)

\* int(round(3600 - 20*60*(number - 1) - timedelta(minutes, seconds).total_seconds(), -1) / 10)
TimeLeft(play) ==
    RoundToTens(3600 - 20 * 60 * (play.number - 1) - (60 * play.minutes + play.seconds)) \div 10

\* a slip: the score differential is stored as it comes
Clip_none(x, lo, hi) == x

\* np.clip(x, lo, hi)
Clip(x, lo, hi) == IF x < lo THEN lo ELSE IF x > hi THEN hi ELSE x

\* the if chain of lines 67-78
ZoneOf(play) ==
    IF play.zoneCode = "N" THEN "N"
    ELSE IF play.homeTeamDefendingSide = "right" /\ play.xCoord < 0 THEN "O"
    ELSE IF play.homeTeamDefendingSide = "right" /\ play.xCoord > 0 THEN "D"
    ELSE IF play.homeTeamDefendingSide = "left" /\ play.xCoord > 0 THEN "O"
    ELSE IF play.homeTeamDefendingSide = "left" /\ play.xCoord > 0 THEN "D"
    ELSE "N"

\* the entries one play appends to goals, situations and location_last_plays
GoalsOf(play) ==
    IF play.periodType = "REG" /\ play.typeCode = 505
    THEN << [time_left |-> TimeLeft(play), score_diff |-> play.homeScore - play.awayScore] >>
    ELSE <<>>

SituationsOf(play) ==
    IF /\ play.periodType = "REG"
       /\ play.hasSituationCode
       /\ \E k \in DOMAIN relevant_situation_codes : relevant_situation_codes[k] = play.situationCode
    THEN << [time_left |-> TimeLeft(play), situationCode |-> Reversed(play.situationCode)] >>
    ELSE <<>>

LocationsOf(play) ==
    IF play.periodType = "REG" /\ play.hasDefendingSide /\ play.hasDetails /\ play.hasXCoord
    THEN << [time_left |-> TimeLeft(play), zoneCode |-> ZoneOf(play)] >>
    ELSE <<>>

\* for play in plays: the list after the loop, seeded with the entry at 360
RECURSIVE Appended(_, _, _)
Appended(seed, entries, k) ==
    IF k = 0 THEN seed ELSE Appended(seed, entries, k - 1) \o entries[k]

Collected(seed, entries) == Appended(seed, entries, Len(entries))

\* sorted(xs, key=lambda x: x['time_left'], reverse=True): stable
RECURSIVE SortedByTimeLeft(_)
SortedByTimeLeft(xs) ==
    IF xs = <<>> THEN <<>>
    ELSE LET rest == SortedByTimeLeft(SubSeq(xs, 1, Len(xs) - 1))
             x == xs[Len(xs)]
             before == {k \in DOMAIN rest : rest[k].time_left >= x.time_left}
             n == IF before = {} THEN 0 ELSE CHOOSE k \in before : \A m \in before : m <= k
         IN SubSeq(rest, 1, n) \o <<x>> \o SubSeq(rest, n + 1, Len(rest))

\* array[start:end] = values[i] for i = 1 .. Len(values) in turn, on an array of
\* Ticks entries that all hold the placeholder; position p holds tick p - 1
Filled(placeholder, sorted, values) ==
    LET start(i) == Ticks - sorted[i].time_left
        end(i) == Ticks - (IF i = Len(sorted) THEN 0 ELSE sorted[i + 1].time_left)
        writers(t) == {i \in DOMAIN values : start(i) <= t /\ t < end(i)}
        last(t) == CHOOSE i \in writers(t) : \A m \in writers(t) : m <= i
    IN [p \in 1 .. Ticks |-> IF writers(p - 1) = {} THEN placeholder ELSE values[last(p - 1)]]

create_score_timeline(plays) ==
    LET goals == Collected(<< [time_left |-> 360, score_diff |-> 0] >>, [k \in DOMAIN plays |-> GoalsOf(plays[k])])
        sits == Collected(<< [time_left |-> 360, situationCode |-> <<1, 5, 5, 1>>] >>,
                          [k \in DOMAIN plays |-> SituationsOf(plays[k])])
        location_last_plays == Collected(<< [time_left |-> 360, zoneCode |-> "N"] >>,
                                         [k \in DOMAIN plays |-> LocationsOf(plays[k])])
        goals_sorted == SortedByTimeLeft(goals)
        situations_sorted == SortedByTimeLeft(sits)
        location_last_plays_sorted == SortedByTimeLeft(location_last_plays)
        goalValues == [i \in DOMAIN goals_sorted |-> Clip(goals_sorted[i].score_diff, -6, 6)]
        situationValues ==
            [i \in DOMAIN situations_sorted |-> IntOf(situations_sorted[i].situationCode)]
        locationValues == [i \in DOMAIN location_last_plays |-> location_last_plays[i].zoneCode]
    IN /\ timeline.phase = "idle"
       /\ timeline' = [phase |-> "built", plays |-> plays,
                       goals_timeline |-> Filled(0, goals_sorted, goalValues),
                       situations_timeline |-> Filled(0, situations_sorted, situationValues),
                       location_last_plays_timeline |->
                           Filled("-", location_last_plays_sorted, locationValues)]
       /\ UNCHANGED <<modelVars, twin, api, race>>

\* the three arrays read as one state sequence
GameOf(tl) ==
    [p \in 1 .. Len(tl.goals_timeline) |->
        <<tl.goals_timeline[p], tl.situations_timeline[p], tl.location_last_plays_timeline[p]>>]

\* for n, game in enumerate(game_ids): the next game is fetched
NextGame ==
    /\ timeline.phase = "built"
    /\ timeline' = NoTimeline
    /\ UNCHANGED <<modelVars, twin, api, race>>

Play(periodType, number, minutes, seconds, typeCode, situationCode, side, xCoord, zoneCode, homeScore, awayScore) ==
    [periodType |-> periodType, number |-> number, minutes |-> minutes, seconds |-> seconds,
     typeCode |-> typeCode,
     hasSituationCode |-> situationCode # <<>>, situationCode |-> situationCode,
     hasDefendingSide |-> side # "", homeTeamDefendingSide |-> side,
     hasDetails |-> TRUE, hasXCoord |-> zoneCode # "", xCoord |-> xCoord, zoneCode |-> zoneCode,
     homeScore |-> homeScore, awayScore |-> awayScore]

\* plays as the play-by-play feed lists them: goals at the first and the last
\* second of regulation, leads of 7, times that round up and down, codes with
\* a leading zero, a code outside the list, a play without a code, plays
\* without coordinates, every branch of the zone chain, an overtime goal
PlayBook ==
    {Play("REG", 1, 0, 0, 505, <<1, 5, 5, 1>>, "right", -50, "O", 1, 0),
     Play("REG", 2, 10, 5, 505, <<0, 6, 4, 1>>, "left", -30, "D", 7, 0),
     Play("REG", 3, 20, 0, 505, <<1, 4, 6, 0>>, "right", 40, "D", 0, 7),
     Play("REG", 1, 10, 15, 506, <<0, 1, 0, 1>>, "left", 20, "O", 0, 0),
     Play("REG", 2, 0, 0, 502, <<1, 5, 5, 0>>, "", 0, "", 0, 0),
     Play("OT", 4, 1, 0, 505, <<1, 3, 3, 1>>, "left", 60, "O", 1, 0),
     Play("REG", 3, 19, 55, 503, <<>>, "right", 0, "N", 0, 0),
     Play("REG", 1, 19, 55, 505, <<1, 3, 3, 1>>, "", 0, "", 1, 1),
     Play("REG", 1, 0, 5, 504, <<1, 5, 4, 1>>, "right", 10, "D", 0, 0),
     Play("REG", 2, 15, 0, 505, <<0, 5, 3, 1>>, "left", 5, "O", 2, 3)}

PlayLists == UNION {[1 .. n -> PlayBook] : n \in 0 .. MaxPlays}

TimelineNext ==
    \/ \E plays \in PlayLists : create_score_timeline(plays)
    \/ NextGame

SpecTimeline == Init /\ [][TimelineNext]_vars

\* the regulation plays have period 1..3 and a time between 00:00 and 20:00
RegulationTimes(plays) ==
    \A k \in DOMAIN plays :
        plays[k].periodType = "REG" =>
            /\ plays[k].number \in 1 .. 3
            /\ 60 * plays[k].minutes + plays[k].seconds \in 0 .. 20 * 60
            /\ plays[k].seconds \in 0 .. 59

Codes == {situations[k] : k \in DOMAIN situations}

\* the three arrays have 360 entries, each from the model's domain
C18_ArraysInDomain ==
    (timeline.phase # "idle" /\ RegulationTimes(timeline.plays)) =>
        /\ Len(timeline.goals_timeline) = 360
        /\ Len(timeline.situations_timeline) = 360
        /\ Len(timeline.location_last_plays_timeline) = 360
        /\ \A p \in 1 .. 360 :
              /\ timeline.goals_timeline[p] \in -6 .. 6
              /\ timeline.situations_timeline[p] \in Codes
              /\ timeline.situations_timeline[p] # 0
              /\ timeline.location_last_plays_timeline[p] \in {"O", "N", "D"}
              /\ timeline.location_last_plays_timeline[p] # "-"
              /\ state_to_idx(states, GameOf(timeline)[p]) # None

\* every one of the 359 consecutive pairs is one update_transitions counts
C18_NoPairDropped ==
    (timeline.phase # "idle" /\ RegulationTimes(timeline.plays)) =>
        ResolvedAt(states, GameOf(timeline)) = 1 .. 360 - 1

\* every listed code read backwards is a code of the model, and every time of
\* regulation gives a time_left of 0 .. 360
C18_CodesAndTimes ==
    /\ \A k \in DOMAIN relevant_situation_codes :
          IntOf(Reversed(relevant_situation_codes[k])) \in Codes
    /\ \A number \in 1 .. 3, minutes \in 0 .. 20, seconds \in 0 .. 59 :
          60 * minutes + seconds <= 20 * 60 =>
              TimeLeft([number |-> number, minutes |-> minutes, seconds |-> seconds]) \in 0 .. 360

\* C18: for plays whose regulation plays have period 1..3 and time 00:00 to
\* 20:00, create_score_timeline returns three arrays of length 360 whose every
\* tick holds a score differential in -6..6, one of the model's 19 situation
\* codes and a zone of O, N, D (no placeholder 0 or '-' is left), so every tick
\* resolves in the model's state space and update_transitions drops no pair.
C18_TimelineInStateSpace == C18_ArraysInDomain /\ C18_NoPairDropped /\ C18_CodesAndTimes

\* a timeline with a home lead of 7 stored as 6 while the code '0641' read
\* backwards is in force, and a zone taken from a play
C18_Witness ==
    /\ timeline.phase = "built"
    /\ \E p \in 1 .. 360 :
          /\ timeline.goals_timeline[p] = 6
          /\ timeline.situations_timeline[p] = 1460
    /\ \E p \in 1 .. 360 : timeline.location_last_plays_timeline[p] = "O"
    /\ \E k \in DOMAIN timeline.plays : timeline.plays[k].homeScore - timeline.plays[k].awayScore = 7

----------------------------------------------------------------------------
(* Two processes load the model the trainer saved and call propagate with   *)
(* the same horizon; matrices/<n>.npy is shared, nothing coordinates them    *)

Procs == {1, 2}

\* the games the trainer accumulates before it saves
TrainGames == {Scenario, <<s0, s0, s0>>}

\* everything of the trainer's model but the shared cache directory
trainerVars == <<states, n_states, transitions, is_normalized, file, result, lastCall,
                 observed, preSums, dirty, calls>>

RaceFrame == UNCHANGED <<twin, api, timeline>>

\* train_Markov_Model: update_transitions per game, normalize, save
Trainer ==
    /\ race.phase = "idle"
    /\ \/ \E game \in TrainGames : update_transitions(game)
       \/ normalize
       \/ save
    /\ UNCHANGED race

\* model = NHLMarkovModel.load(...) in each process, then propagate(s, n) is
\* entered by both while matrices/<n>.npy does not exist
Fork(n_steps, sa, sb) ==
    LET proc(s) == [pc |-> "check", idx |-> state_to_idx(file.states, s),
                    transitions |-> file.transitions, is_normalized |-> file.is_normalized,
                    matrix |-> Zeros, stored |-> FALSE,
                    returned |-> FALSE, value |-> [i \in {} |-> Zero], raised |-> ""]
    IN /\ race.phase = "idle"
       /\ file.exists
       /\ ~CacheHas(cache, n_steps)
       /\ race' = [phase |-> "running", n |-> n_steps, open |-> {}, torn |-> FALSE,
                   p |-> <<proc(sa), proc(sb)>>]
       /\ UNCHANGED modelVars

\* lines 110-120: lazy normalize of the process's own copy, then os.path.exists
ExistsCheck(i) ==
    LET me == race.p[i]
        M == IF me.is_normalized THEN me.transitions ELSE Normalized(me.transitions)
        exists == CacheHas(cache, race.n) \/ race.open # {}
    IN /\ race.phase = "running" /\ me.pc = "check"
       /\ race' = [race EXCEPT !.p[i] = [me EXCEPT !.transitions = M, !.is_normalized = TRUE,
                                                   !.pc = IF exists THEN "load" ELSE "compute"]]
       /\ UNCHANGED modelVars

\* line 123: matrix = np.linalg.matrix_power(self.transitions, n_steps)
Compute(i) ==
    LET me == race.p[i]
    IN /\ race.phase = "running" /\ me.pc = "compute"
       /\ race' = [race EXCEPT !.p[i] = [me EXCEPT !.matrix = Power(me.transitions, race.n, n_states),
                                                   !.pc = "store"]]
       /\ UNCHANGED modelVars

\* line 124, np.save begins: the file is opened for writing, which creates it
\* or empties it; until the writers are through its content is incomplete
StoreOpen(i) ==
    LET me == race.p[i]
    IN /\ race.phase = "running" /\ me.pc = "store"
       /\ cache' = [h \in DOMAIN cache \ {race.n} |-> cache[h]]
       /\ race' = [race EXCEPT !.open = @ \cup {i}, !.p[i] = [me EXCEPT !.pc = "writing"]]
       /\ UNCHANGED trainerVars

\* line 124, np.save ends: the bytes are written and the file closed; lines
\* 126-127 return one-hot @ matrix
StoreClose(i) ==
    LET me == race.p[i]
        left == race.open \ {i}
    IN /\ race.phase = "running" /\ me.pc = "writing"
       /\ cache' = IF left = {} THEN (race.n :> me.matrix) @@ cache ELSE cache
       /\ race' = [race EXCEPT !.open = left,
                               !.p[i] = [me EXCEPT !.pc = "done", !.stored = TRUE,
                                                   !.returned = TRUE,
                                                   !.value = VecMat(OneHot(n_states, me.idx), me.matrix)]]
       /\ UNCHANGED trainerVars

\* what np.load can meet: the complete file, or a file a writer has open,
\* which is too short to parse unless that writer's bytes are all out already
LoadOutcomes ==
    IF CacheHas(cache, race.n)
    THEN {[raised |-> "", matrix |-> cache[race.n]]}
    ELSE {[raised |-> "ValueError", matrix |-> Zeros]}
         \cup {[raised |-> "", matrix |-> race.p[j].matrix] : j \in race.open}

\* line 121: matrix = np.load(...); lines 126-127 return one-hot @ matrix
Load(i) ==
    LET me == race.p[i]
    IN /\ race.phase = "running" /\ me.pc = "load"
       /\ \E outcome \in LoadOutcomes :
             race' = [race EXCEPT
                        !.torn = @ \/ ~CacheHas(cache, race.n),
                        !.p[i] = IF outcome.raised # ""
                                 THEN [me EXCEPT !.pc = "failed", !.raised = outcome.raised]
                                 ELSE [me EXCEPT !.pc = "done", !.matrix = outcome.matrix,
                                                 !.returned = TRUE,
                                                 !.value = VecMat(OneHot(n_states, me.idx),
                                                                  outcome.matrix)]]
       /\ UNCHANGED modelVars

RaceNext ==
    \/ Trainer /\ RaceFrame
    \/ (\E n_steps \in Horizons, sa, sb \in ValidInputs : Fork(n_steps, sa, sb)) /\ RaceFrame
    \/ (\E i \in Procs : ExistsCheck(i)) /\ RaceFrame
    \/ (\E i \in Procs : Compute(i)) /\ RaceFrame
    \/ (\E i \in Procs : StoreOpen(i)) /\ RaceFrame
    \/ (\E i \in Procs : StoreClose(i)) /\ RaceFrame
    \/ (\E i \in Procs : Load(i)) /\ RaceFrame

SpecRace == Init /\ [][RaceNext]_vars

\* both calls have ended, by a return or by an exception
BothEnded == race.phase = "running" /\ \A i \in Procs : race.p[i].pc \in {"done", "failed"}

\* the saved model's normalized matrix, its n-th power, and what a lone
\* propagate from index idx returns
SavedNormalized == IF file.is_normalized THEN file.transitions ELSE Normalized(file.transitions)
SavedPower == PowerLeft(SavedNormalized, race.n, n_states)
LoneResult(idx) == StepDist(OneHot(n_states, idx), SavedNormalized, race.n)

RaceOutcome ==
    /\ \A i \in Procs :
          /\ race.p[i].raised = "" /\ race.p[i].returned
          /\ race.p[i].value = LoneResult(race.p[i].idx)
          /\ race.p[i].stored => race.p[i].matrix = SavedPower
    /\ CacheHas(cache, race.n) /\ cache[race.n] = SavedPower

\* C14: two processes that loaded the same saved model and call propagate with
\* the same n while no entry for n exists: under every interleaving both store
\* the same matrix, the entry for n ends up as the n-th power of the model's
\* normalized matrix, and both calls return what a lone call would.
C14_BenignRace == BothEnded => RaceOutcome

\* the same, for the runs in which no np.load met a file that was being written
C14_BenignUnlessTornRead == (BothEnded /\ ~race.torn) => RaceOutcome

\* both processes missed the entry, computed and stored, on a trained model
C14_WitnessBothStored ==
    /\ BothEnded
    /\ \A i \in Procs : race.p[i].stored
    /\ race.n = MaxSteps
    /\ SavedPower # Zeros
    /\ RaceOutcome

====
